---- MODULE Spec2Model ----
(***************************************************************************)
(* Model of the serverless image pipeline: the Lambda dispatcher           *)
(* (src/lambda/handler.py) and the helpers it calls                        *)
(* (src/lambda/image_utils.py).                                            *)
(*                                                                         *)
(* Python strings are sequences of one-character strings.  JSON values of  *)
(* the inbound event are records tagged by "kind".  Python floats are      *)
(* IEEE-754 binary64 values, kept as a 53-bit significand (a sequence of   *)
(* bits, most significant first) and a binary exponent.                    *)
(***************************************************************************)
EXTENDS Integers, Sequences, FiniteSets, TLC

VARIABLES
    \* ---- lambda_handler / process_image ----
    records,          \* event["Records"]
    DLQ_URL,          \* module-level configuration (handler.py:43-46)
    THUMB_SIZES,
    WEBP_QUALITY,
    pc,               \* position inside lambda_handler / process_image
    idx,              \* 1-based position of the for loop over records
    bucket, key,      \* locals of lambda_handler
    body,             \* bytes read by get_object
    img,              \* decoded image: [width, height]
    quality_int,      \* local of process_image
    sizes,            \* widths the for loop of process_image still has to visit
    generated_sizes,  \* local of process_image
    pending,          \* derivative encoded and waiting for put_object
    exc,              \* exception being handled by lambda_handler
    result,           \* last value returned by process_image
    outcome,          \* how lambda_handler ended
    calls,            \* every call made to a collaborator, in order
    out_bucket,       \* keys present in OUTPUT_BUCKET
    \* ---- direct calls of the pure helpers ----
    fn_pc,            \* "idle" before the call, "returned" after it
    sizes_str, parsed,            \* parse_sizes(sizes_str) = parsed
    src_key, width, dest_key,     \* derive_output_key(src_key, width) = dest_key
    dims, height                  \* dims = <<W, H, w>>; height as lines 124-125 compute it

handlerVars == <<records, DLQ_URL, THUMB_SIZES, WEBP_QUALITY, pc, idx, bucket,
                 key, body, img, quality_int, sizes, generated_sizes, pending,
                 exc, result, outcome, calls, out_bucket>>
fnVars == <<fn_pc, sizes_str, parsed, src_key, width, dest_key, dims, height>>
vars == <<handlerVars, fnVars>>

----------------------------------------------------------------------------
(* Bounds of the model *)

MaxLen == 4          \* longest size specification given to parse_sizes
MaxKeyLen == 4       \* longest generated source key given to derive_output_key
MaxDim == 22         \* largest image width / height in the height computation
MaxRecords == 2      \* longest batch of records

----------------------------------------------------------------------------
(* Python str *)

Digits == <<"0", "1", "2", "3", "4", "5", "6", "7", "8", "9">>
Whitespace == {" "}

RECURSIVE DigitValue(_, _)
DigitValue(c, i) ==
    IF i > 10 THEN -1 ELSE IF Digits[i] = c THEN i - 1 ELSE DigitValue(c, i + 1)

IsDigit(c) == DigitValue(c, 1) >= 0

\* str.split(sep) for a one-character separator: always at least one part.
RECURSIVE SplitFrom(_, _, _, _)
SplitFrom(s, sep, i, cur) ==
    IF i > Len(s) THEN <<cur>>
    ELSE IF s[i] = sep THEN <<cur>> \o SplitFrom(s, sep, i + 1, <<>>)
    ELSE SplitFrom(s, sep, i + 1, Append(cur, s[i]))

Split(s, sep) == SplitFrom(s, sep, 1, <<>>)

\* str.strip(): drop leading and trailing whitespace.
RECURSIVE LStrip(_)
LStrip(s) == IF s # <<>> /\ Head(s) \in Whitespace THEN LStrip(Tail(s)) ELSE s

RECURSIVE RStrip(_)
RStrip(s) ==
    IF s # <<>> /\ s[Len(s)] \in Whitespace
    THEN RStrip(SubSeq(s, 1, Len(s) - 1)) ELSE s

Strip(s) == LStrip(RStrip(s))

\* sep in s
Contains(s, c) == \E i \in 1..Len(s) : s[i] = c

\* s.rsplit(sep, 1) when sep occurs in s: <<text before the last sep, text after it>>
RECURSIVE LastIndexOf(_, _, _)
LastIndexOf(s, c, i) ==
    IF i = 0 THEN 0 ELSE IF s[i] = c THEN i ELSE LastIndexOf(s, c, i - 1)

RSplit1(s, sep) ==
    LET i == LastIndexOf(s, sep, Len(s))
    IN  <<SubSeq(s, 1, i - 1), SubSeq(s, i + 1, Len(s))>>

\* int(s): surrounding whitespace, an optional sign, then decimal digits.
\* IntOk(s) is FALSE where int(s) raises ValueError.
Unsigned(s) ==
    LET t == Strip(s)
    IN  IF t # <<>> /\ Head(t) \in {"+", "-"} THEN Tail(t) ELSE t

IntOk(s) ==
    LET d == Unsigned(s)
    IN  d # <<>> /\ \A i \in 1..Len(d) : IsDigit(d[i])

RECURSIVE DigitsValue(_, _)
DigitsValue(d, acc) ==
    IF d = <<>> THEN acc ELSE DigitsValue(Tail(d), 10 * acc + DigitValue(Head(d), 1))

IntOf(s) ==
    LET t == Strip(s)
        v == DigitsValue(Unsigned(s), 0)
    IN  IF Head(t) = "-" THEN 0 - v ELSE v

\* str(n) / f"{n}" for an integer n
RECURSIVE NatStr(_)
NatStr(n) == IF n < 10 THEN <<Digits[n + 1]>> ELSE Append(NatStr(n \div 10), Digits[(n % 10) + 1])

IntStr(n) == IF n < 0 THEN <<"-">> \o NatStr(0 - n) ELSE NatStr(n)

----------------------------------------------------------------------------
(* parse_sizes *)

\* sorted(set(xs))
RECURSIVE SortedSet(_)
SortedSet(S) ==
    IF S = {} THEN <<>>
    ELSE LET m == CHOOSE x \in S : \A y \in S : x <= y
         IN  <<m>> \o SortedSet(S \ {m})

Range(s) == {s[i] : i \in 1..Len(s)}

\* the for loop of lines 38-47: the list sizes after the parts from i on
RECURSIVE CollectSizes(_, _, _)
CollectSizes(parts, i, acc) ==
    IF i > Len(parts) THEN acc
    ELSE LET part == Strip(parts[i])
         IN  IF part = <<>> THEN CollectSizes(parts, i + 1, acc)
             ELSE IF ~IntOk(part) THEN CollectSizes(parts, i + 1, acc)
             ELSE IF IntOf(part) > 0
                  THEN CollectSizes(parts, i + 1, Append(acc, IntOf(part)))
                  ELSE CollectSizes(parts, i + 1, acc)

\* line 48 returning the list as collected
parse_sizes_unsorted(s) == CollectSizes(Split(s, ","), 1, <<>>)

parse_sizes(s) == SortedSet(Range(CollectSizes(Split(s, ","), 1, <<>>)))

----------------------------------------------------------------------------
(* derive_output_key *)

WebpSuffix == <<"w", ".", "w", "e", "b", "p">>

\* the base name cut at the last '.' of the key instead of the first of the file name
derive_output_key_lastdot(k, w) ==
    LET dots == {i \in 1..Len(k) : k[i] = "."}
        last == IF dots = {} THEN Len(k) + 1 ELSE CHOOSE i \in dots : \A j \in dots : j <= i
    IN  SubSeq(k, 1, last - 1) \o <<"_">> \o IntStr(w) \o WebpSuffix

derive_output_key(k, w) ==
    IF Contains(k, "/")
    THEN LET prefix == RSplit1(k, "/")[1]
             filename == RSplit1(k, "/")[2]
             base == Split(filename, ".")[1]
         IN  prefix \o <<"/">> \o base \o <<"_">> \o IntStr(w) \o WebpSuffix
    ELSE LET base == Split(k, ".")[1]
         IN  base \o <<"_">> \o IntStr(w) \o WebpSuffix

----------------------------------------------------------------------------
(* Python float: IEEE-754 binary64, round to nearest, ties to even *)

Precision == 53

\* a bit sequence plus one, as a bit sequence of the same length and a carry
Increment(bits) ==
    LET zeros == {i \in 1..Len(bits) : bits[i] = 0}
        z == IF zeros = {} THEN 0 ELSE CHOOSE i \in zeros : \A j \in zeros : j <= i
    IN  [bits |-> [i \in 1..Len(bits) |-> IF i < z THEN bits[i] ELSE IF i = z THEN 1 ELSE 0],
         carry |-> IF z = 0 THEN 1 ELSE 0]

\* Round the exact value (bits followed by a fraction) * 2^e to Precision bits.
\* half: the dropped fraction compared with one half: -1 below, 0 equal, 1 above.
RoundNearestEven(bits, e, half) ==
    LET up == half > 0 \/ (half = 0 /\ bits[Len(bits)] = 1)
        inc == Increment(bits)
    IN  IF ~up THEN [m |-> bits, e |-> e]
        ELSE IF inc.carry = 0 THEN [m |-> inc.bits, e |-> e]
        ELSE [m |-> <<1>> \o SubSeq(inc.bits, 1, Len(bits) - 1), e |-> e + 1]

\* the next count bits of the quotient r / d (r < d), and the remainder left
RECURSIVE QuotientBits(_, _, _, _)
QuotientBits(r, d, count, acc) ==
    IF count = 0 THEN [bits |-> acc, rem |-> r]
    ELSE IF 2 * r >= d THEN QuotientBits(2 * r - d, d, count - 1, Append(acc, 1))
    ELSE QuotientBits(2 * r, d, count - 1, Append(acc, 0))

\* n, d, s with d <= n < 2d and a / b = (n / d) * 2^s
RECURSIVE Normalize(_, _, _)
Normalize(n, d, s) ==
    IF n < d THEN Normalize(2 * n, d, s - 1)
    ELSE IF n >= 2 * d THEN Normalize(n, 2 * d, s + 1)
    ELSE [n |-> n, d |-> d, s |-> s]

\* a / float(b) for positive integers a, b
FloatDiv(a, b) ==
    LET nz == Normalize(a, b, 0)
        q == QuotientBits(nz.n - nz.d, nz.d, Precision - 1, <<1>>)
        half == IF 2 * q.rem > nz.d THEN 1 ELSE IF 2 * q.rem = nz.d THEN 0 ELSE -1
    IN  RoundNearestEven(q.bits, nz.s - (Precision - 1), half)

\* bits * k for a positive integer k, as a bit sequence (most significant first)
RECURSIVE CarryBits(_)
CarryBits(c) == IF c = 0 THEN <<>> ELSE Append(CarryBits(c \div 2), c % 2)

RECURSIVE TimesInt(_, _, _, _, _)
TimesInt(bits, k, i, carry, acc) ==
    IF i = 0 THEN CarryBits(carry) \o acc
    ELSE IF (bits[i] * k + carry) % 2 = 1
         THEN TimesInt(bits, k, i - 1, (bits[i] * k + carry) \div 2, <<1>> \o acc)
         ELSE TimesInt(bits, k, i - 1, (bits[i] * k + carry) \div 2, <<0>> \o acc)

\* k * x for a positive integer k and a float x
FloatMulInt(k, x) ==
    LET p == TimesInt(x.m, k, Len(x.m), 0, <<>>)
        extra == Len(p) - Precision
        kept == SubSeq(p, 1, Precision)
        dropped == SubSeq(p, Precision + 1, Len(p))
        sticky == \E i \in 2..Len(dropped) : dropped[i] = 1
        half == IF extra = 0 \/ dropped[1] = 0 THEN -1
                ELSE IF sticky THEN 1 ELSE 0
    IN  RoundNearestEven(kept, x.e + extra, half)

RECURSIVE BitsValue(_, _)
BitsValue(bits, acc) ==
    IF bits = <<>> THEN acc ELSE BitsValue(Tail(bits), 2 * acc + Head(bits))

\* int(x) for a positive float below 2^31
FloatToInt(x) ==
    LET keep == Len(x.m) + x.e
    IN  IF keep <= 0 THEN 0 ELSE BitsValue(SubSeq(x.m, 1, keep), 0)

\* lines 124-125: ratio = width / float(img.width); height = int(img.height * ratio)
ScaledHeight(W, H, w) ==
    LET ratio == FloatDiv(w, W)
    IN  FloatToInt(FloatMulInt(H, ratio))

----------------------------------------------------------------------------
(* Values of the idle parts of the state *)

NoValue == [kind |-> "none"]

HandlerIdle ==
    /\ records = <<>> /\ DLQ_URL = <<>> /\ THUMB_SIZES = <<>> /\ WEBP_QUALITY = <<>>
    /\ pc = "idle" /\ idx = 0 /\ bucket = NoValue /\ key = NoValue
    /\ body = NoValue /\ img = NoValue /\ quality_int = 0
    /\ sizes = <<>> /\ generated_sizes = <<>> /\ pending = NoValue
    /\ exc = NoValue /\ result = NoValue /\ outcome = NoValue
    /\ calls = <<>> /\ out_bucket = {}

FnIdle ==
    /\ fn_pc = "idle"
    /\ sizes_str = <<>> /\ parsed = <<>>
    /\ src_key = <<>> /\ width = 0 /\ dest_key = <<>>
    /\ dims = <<0, 0, 0>> /\ height = 0

\* every string over alphabet of at most n characters
Strings(alphabet, n) == UNION {[1..k -> alphabet] : k \in 0..n}

----------------------------------------------------------------------------
(* The inbound event: JSON values *)

None == [kind |-> "None"]
EmptyDict == [kind |-> "dict"]
Str(s) == [kind |-> "str", val |-> s]

\* d.get(f, default) on a dict d
Get(d, f, default) == IF f \in DOMAIN d THEN d[f] ELSE default

\* not v
Falsy(v) == v.kind = "None" \/ (v.kind = "str" /\ v.val = <<>>)

\* lines 77-79: .get on a value that is not a dict raises AttributeError
Extract(record) ==
    LET s3_info == Get(record, "s3", EmptyDict)
        b == Get(s3_info, "bucket", EmptyDict)
        o == Get(s3_info, "object", EmptyDict)
    IN  IF s3_info.kind # "dict" \/ b.kind # "dict" \/ o.kind # "dict"
        THEN [raised |-> TRUE, bucket |-> None, key |-> None]
        ELSE [raised |-> FALSE, bucket |-> Get(b, "name", None), key |-> Get(o, "key", None)]

InBucket == <<"i", "n">>
SourceKeys == {<<"a", ".", "j">>, <<"d", "/", "b">>}

NameVals == {Str(<<>>), Str(InBucket)}
BucketVals == {None, EmptyDict} \cup {[kind |-> "dict", name |-> n] : n \in NameVals}
KeyVals == {Str(<<>>)} \cup {Str(k) : k \in SourceKeys}
ObjectVals == {None, EmptyDict} \cup {[kind |-> "dict", key |-> k] : k \in KeyVals}
S3Vals == {None, EmptyDict}
          \cup {[kind |-> "dict", bucket |-> b, object |-> o] : b \in BucketVals, o \in ObjectVals}
RecordVals == {EmptyDict} \cup {[kind |-> "dict", s3 |-> s] : s \in S3Vals}

GoodRecord(k) ==
    [kind |-> "dict",
     s3 |-> [kind |-> "dict",
             bucket |-> [kind |-> "dict", name |-> Str(InBucket)],
             object |-> [kind |-> "dict", key |-> Str(k)]]]

----------------------------------------------------------------------------
(* The collaborators: object storage, the image library, the queue *)

TextBody == [kind |-> "text"]
ImageBody(w, h) == [kind |-> "image", width |-> w, height |-> h]
Bodies == {TextBody, ImageBody(1024, 768), ImageBody(300, 200), ImageBody(1024, 1)}

Exception(type, i) == [type |-> type, idx |-> i]
\* str(exc)
ExcStr(e) == e.type

DefaultQuality == 85

\* the qualities the WebP encoder accepts; save raises on any other
EncoderQualities == 0..100

\* line 121 with < in place of <=
SkipsUpscale_strict(image_width, w) == image_width < w

\* line 121
SkipsUpscale(image_width, w) == image_width <= w

\* lines 109-112
CoerceQuality(q) == IF IntOk(q) THEN IntOf(q) ELSE DefaultQuality

MetricNames == <<"thumbnails_count", "duration_ms", "size_in_bytes", "size_out_bytes">>

----------------------------------------------------------------------------
(* lambda_handler, with process_image inlined where it is called *)

SizeSpecs == {<<"1", "2", "8", ",", "5", "1", "2">>,
              <<"5", "1", "2", ",", " ", "1", "2", "8", ",", "1", "2", "8">>,
              <<"5", "0", "0", "0", "0">>,
              <<"x", ",", "0", ",", "-", "5", ",", ",", "3", "0", "0">>}
QualitySpecs == {<<"8", "5">>, <<"0">>, <<"-", "5">>, <<"5", "0", "0">>, <<"h", "i">>}
QueueUrls == {None, Str(<<>>), Str(<<"q">>)}

InitHandler ==
    /\ pc = "loop" /\ idx = 1
    /\ bucket = NoValue /\ key = NoValue
    /\ body = NoValue /\ img = NoValue /\ quality_int = 0
    /\ sizes = <<>> /\ generated_sizes = <<>> /\ pending = NoValue
    /\ exc = NoValue /\ result = NoValue /\ outcome = NoValue
    /\ calls = <<>> /\ out_bucket = {}
    /\ FnIdle

\* batches of records under the default configuration
Init ==
    /\ records \in UNION {[1..n -> RecordVals] : n \in 0..MaxRecords}
    /\ DLQ_URL \in QueueUrls
    /\ THUMB_SIZES = <<"1", "2", "8", ",", "5", "1", "2">>
    /\ WEBP_QUALITY = <<"8", "5">>
    /\ InitHandler

\* one well-formed record, alone or after a malformed one, under every configuration
ProcessBatches ==
    {<<GoodRecord(k)>> : k \in SourceKeys}
    \cup {<<EmptyDict, GoodRecord(k)>> : k \in SourceKeys}
    \cup {<<[kind |-> "dict", s3 |-> None]>>}

InitProcess ==
    /\ records \in ProcessBatches
    /\ DLQ_URL \in QueueUrls
    /\ THUMB_SIZES \in SizeSpecs
    /\ WEBP_QUALITY \in QualitySpecs
    /\ InitHandler

processVars == <<body, img, quality_int, sizes, generated_sizes, pending, result>>

\* line 166
ReturnOk ==
    /\ pc = "loop" /\ idx > Len(records)
    /\ outcome' = [kind |-> "return", statusCode |-> 200]
    /\ pc' = "done"
    /\ UNCHANGED <<records, DLQ_URL, THUMB_SIZES, WEBP_QUALITY, idx, bucket, key,
                   processVars, exc, calls, out_bucket, fnVars>>

\* lines 77-79 raise outside the try block
ExtractRaises ==
    /\ pc = "loop" /\ idx <= Len(records)
    /\ Extract(records[idx]).raised
    /\ outcome' = [kind |-> "raise", exc |-> Exception("AttributeError", idx)]
    /\ pc' = "done"
    /\ UNCHANGED <<records, DLQ_URL, THUMB_SIZES, WEBP_QUALITY, idx, bucket, key,
                   processVars, exc, calls, out_bucket, fnVars>>

\* lines 80-85
SkipMalformed ==
    /\ pc = "loop" /\ idx <= Len(records)
    /\ LET e == Extract(records[idx])
       IN  /\ ~e.raised
           /\ Falsy(e.bucket) \/ Falsy(e.key)
           /\ bucket' = e.bucket /\ key' = e.key
    /\ idx' = idx + 1
    /\ UNCHANGED <<records, DLQ_URL, THUMB_SIZES, WEBP_QUALITY, pc,
                   processVars, exc, outcome, calls, out_bucket, fnVars>>

\* lines 77-90: a well-formed record enters process_image
StartRecord ==
    /\ pc = "loop" /\ idx <= Len(records)
    /\ LET e == Extract(records[idx])
       IN  /\ ~e.raised
           /\ ~(Falsy(e.bucket) \/ Falsy(e.key))
           /\ bucket' = e.bucket /\ key' = e.key
    /\ pc' = "get_object"
    /\ UNCHANGED <<records, DLQ_URL, THUMB_SIZES, WEBP_QUALITY, idx,
                   processVars, exc, outcome, calls, out_bucket, fnVars>>

\* lines 93-96
GetObject ==
    /\ pc = "get_object"
    /\ \E b \in Bodies : body' = b
    /\ calls' = Append(calls, [op |-> "get_object", idx |-> idx, ok |-> TRUE,
                               bucket |-> bucket.val, key |-> key.val])
    /\ pc' = "open"
    /\ UNCHANGED <<records, DLQ_URL, THUMB_SIZES, WEBP_QUALITY, idx, bucket, key,
                   img, quality_int, sizes, generated_sizes, pending, result,
                   exc, outcome, out_bucket, fnVars>>

\* lines 97-99
GetObjectFails ==
    /\ pc = "get_object"
    /\ calls' = Append(calls, [op |-> "get_object", idx |-> idx, ok |-> FALSE,
                               bucket |-> bucket.val, key |-> key.val])
    /\ exc' = Exception("ClientError:get_object", idx)
    /\ pc' = "except"
    /\ UNCHANGED <<records, DLQ_URL, THUMB_SIZES, WEBP_QUALITY, idx, bucket, key,
                   processVars, outcome, out_bucket, fnVars>>

\* lines 102-116
ImageOpen ==
    /\ pc = "open" /\ body.kind = "image"
    /\ calls' = Append(calls, [op |-> "Image.open", idx |-> idx, ok |-> TRUE])
    /\ img' = [width |-> body.width, height |-> body.height]
    /\ quality_int' = CoerceQuality(WEBP_QUALITY)
    /\ sizes' = parse_sizes(THUMB_SIZES)
    /\ generated_sizes' = <<>>
    /\ pc' = "sizes"
    /\ UNCHANGED <<records, DLQ_URL, THUMB_SIZES, WEBP_QUALITY, idx, bucket, key,
                   body, pending, result, exc, outcome, out_bucket, fnVars>>

\* lines 104-106
ImageOpenFails ==
    /\ pc = "open" /\ body.kind # "image"
    /\ calls' = Append(calls, [op |-> "Image.open", idx |-> idx, ok |-> FALSE])
    /\ exc' = Exception("UnidentifiedImageError", idx)
    /\ pc' = "except"
    /\ UNCHANGED <<records, DLQ_URL, THUMB_SIZES, WEBP_QUALITY, idx, bucket, key,
                   processVars, outcome, out_bucket, fnVars>>

\* lines 121-123
SkipUpscale ==
    /\ pc = "sizes" /\ sizes # <<>>
    /\ SkipsUpscale(img.width, Head(sizes))
    /\ sizes' = Tail(sizes)
    /\ UNCHANGED <<records, DLQ_URL, THUMB_SIZES, WEBP_QUALITY, pc, idx, bucket, key,
                   body, img, quality_int, generated_sizes, pending, result,
                   exc, outcome, calls, out_bucket, fnVars>>

\* lines 124-134: resize and encode; a resize to a height below 1 and an
\* encode at a quality the encoder does not accept always raise
ResizeEncode ==
    /\ pc = "sizes" /\ sizes # <<>>
    /\ ~SkipsUpscale(img.width, Head(sizes))
    /\ LET w == Head(sizes)
           h == ScaledHeight(img.width, img.height, w)
       IN  /\ h >= 1 /\ quality_int \in EncoderQualities
           /\ calls' = Append(calls, [op |-> "save", idx |-> idx, ok |-> TRUE,
                                      width |-> w, height |-> h, quality |-> quality_int])
           /\ pending' = [key |-> derive_output_key(key.val, w), width |-> w]
    /\ pc' = "put_object"
    /\ UNCHANGED <<records, DLQ_URL, THUMB_SIZES, WEBP_QUALITY, idx, bucket, key,
                   body, img, quality_int, sizes, generated_sizes, result,
                   exc, outcome, out_bucket, fnVars>>

ResizeEncodeFails ==
    /\ pc = "sizes" /\ sizes # <<>>
    /\ ~SkipsUpscale(img.width, Head(sizes))
    /\ LET w == Head(sizes)
           h == ScaledHeight(img.width, img.height, w)
       IN  calls' = Append(calls, [op |-> "save", idx |-> idx, ok |-> FALSE,
                                   width |-> w, height |-> h, quality |-> quality_int])
    /\ exc' = Exception("EncodeError", idx)
    /\ pc' = "except"
    /\ UNCHANGED <<records, DLQ_URL, THUMB_SIZES, WEBP_QUALITY, idx, bucket, key,
                   processVars, outcome, out_bucket, fnVars>>

\* lines 135-143
PutObject ==
    /\ pc = "put_object"
    /\ calls' = Append(calls, [op |-> "put_object", idx |-> idx, ok |-> TRUE,
                               key |-> pending.key, width |-> pending.width])
    /\ out_bucket' = out_bucket \cup {pending.key}
    /\ generated_sizes' = Append(generated_sizes, pending.width)
    /\ sizes' = Tail(sizes)
    /\ pending' = NoValue
    /\ pc' = "sizes"
    /\ UNCHANGED <<records, DLQ_URL, THUMB_SIZES, WEBP_QUALITY, idx, bucket, key,
                   body, img, quality_int, result, exc, outcome, fnVars>>

\* the upload error swallowed: the loop goes on to the next width
PutObjectFails_continues ==
    /\ pc = "put_object"
    /\ calls' = Append(calls, [op |-> "put_object", idx |-> idx, ok |-> FALSE,
                               key |-> pending.key, width |-> pending.width])
    /\ sizes' = Tail(sizes)
    /\ pending' = NoValue
    /\ pc' = "sizes"
    /\ UNCHANGED <<records, DLQ_URL, THUMB_SIZES, WEBP_QUALITY, idx, bucket, key,
                   body, img, quality_int, generated_sizes, result,
                   exc, outcome, out_bucket, fnVars>>

\* lines 144-146
PutObjectFails ==
    /\ pc = "put_object"
    /\ calls' = Append(calls, [op |-> "put_object", idx |-> idx, ok |-> FALSE,
                               key |-> pending.key, width |-> pending.width])
    /\ exc' = Exception("ClientError:put_object", idx)
    /\ pc' = "except"
    /\ UNCHANGED <<records, DLQ_URL, THUMB_SIZES, WEBP_QUALITY, idx, bucket, key,
                   processVars, outcome, out_bucket, fnVars>>

\* lines 148-154: process_image returns
ProcessReturns ==
    /\ pc = "sizes" /\ sizes = <<>>
    /\ result' = [idx |-> idx, sizes |-> generated_sizes]
    /\ pc' = "metrics"
    /\ UNCHANGED <<records, DLQ_URL, THUMB_SIZES, WEBP_QUALITY, idx, bucket, key,
                   body, img, quality_int, sizes, generated_sizes, pending,
                   exc, outcome, calls, out_bucket, fnVars>>

\* lines 100-114, then the next iteration of the loop
PublishMetrics ==
    /\ pc = "metrics"
    /\ calls' = calls \o [i \in 1..Len(MetricNames) |->
                            [op |-> "put_metric", idx |-> idx, ok |-> TRUE,
                             name |-> MetricNames[i]]]
    /\ idx' = idx + 1
    /\ pc' = "loop"
    /\ UNCHANGED <<records, DLQ_URL, THUMB_SIZES, WEBP_QUALITY, bucket, key,
                   processVars, exc, outcome, out_bucket, fnVars>>

\* the message of lines 133-142
FailureNotice(ok) ==
    [op |-> "send_message", idx |-> idx, ok |-> ok, queue |-> DLQ_URL.val,
     bucket |-> bucket.val, key |-> key.val, error |-> ExcStr(exc)]

\* the error logged and the loop continued with the next record
HandleErrorNoDlq_continues ==
    /\ pc = "except"
    /\ Falsy(DLQ_URL)
    /\ idx' = idx + 1
    /\ pc' = "loop"
    /\ UNCHANGED <<records, DLQ_URL, THUMB_SIZES, WEBP_QUALITY, bucket, key,
                   processVars, exc, outcome, calls, out_bucket, fnVars>>

\* lines 115-131, 165: no dead-letter destination
HandleErrorNoDlq ==
    /\ pc = "except"
    /\ Falsy(DLQ_URL)
    /\ outcome' = [kind |-> "raise", exc |-> exc]
    /\ pc' = "done"
    /\ UNCHANGED <<records, DLQ_URL, THUMB_SIZES, WEBP_QUALITY, idx, bucket, key,
                   processVars, exc, calls, out_bucket, fnVars>>

\* the message published a second time
HandleErrorDlqSent_twice ==
    /\ pc = "except"
    /\ ~Falsy(DLQ_URL)
    /\ calls' = calls \o <<FailureNotice(TRUE), FailureNotice(TRUE)>>
    /\ outcome' = [kind |-> "raise", exc |-> exc]
    /\ pc' = "done"
    /\ UNCHANGED <<records, DLQ_URL, THUMB_SIZES, WEBP_QUALITY, idx, bucket, key,
                   processVars, exc, out_bucket, fnVars>>

\* lines 115-151, 165: the message is published
HandleErrorDlqSent ==
    /\ pc = "except"
    /\ ~Falsy(DLQ_URL)
    /\ calls' = Append(calls, FailureNotice(TRUE))
    /\ outcome' = [kind |-> "raise", exc |-> exc]
    /\ pc' = "done"
    /\ UNCHANGED <<records, DLQ_URL, THUMB_SIZES, WEBP_QUALITY, idx, bucket, key,
                   processVars, exc, out_bucket, fnVars>>

\* the exception of send_message raised in place of the original one
HandleErrorDlqFails_escalates ==
    /\ pc = "except"
    /\ ~Falsy(DLQ_URL)
    /\ calls' = Append(calls, FailureNotice(FALSE))
    /\ outcome' = [kind |-> "raise", exc |-> Exception("ClientError:send_message", idx)]
    /\ pc' = "done"
    /\ UNCHANGED <<records, DLQ_URL, THUMB_SIZES, WEBP_QUALITY, idx, bucket, key,
                   processVars, exc, out_bucket, fnVars>>

\* lines 115-142, 152-165: send_message raises, which is only logged
HandleErrorDlqFails ==
    /\ pc = "except"
    /\ ~Falsy(DLQ_URL)
    /\ calls' = Append(calls, FailureNotice(FALSE))
    /\ outcome' = [kind |-> "raise", exc |-> exc]
    /\ pc' = "done"
    /\ UNCHANGED <<records, DLQ_URL, THUMB_SIZES, WEBP_QUALITY, idx, bucket, key,
                   processVars, exc, out_bucket, fnVars>>

Next ==
    \/ ReturnOk \/ ExtractRaises \/ SkipMalformed \/ StartRecord
    \/ GetObject \/ GetObjectFails \/ ImageOpen \/ ImageOpenFails
    \/ SkipUpscale \/ ResizeEncode \/ ResizeEncodeFails
    \/ PutObject \/ PutObjectFails \/ ProcessReturns \/ PublishMetrics
    \/ HandleErrorNoDlq \/ HandleErrorDlqSent \/ HandleErrorDlqFails

Spec == Init /\ [][Next]_vars

SpecProcess == InitProcess /\ [][Next]_vars

----------------------------------------------------------------------------
(* parse_sizes called on its own *)

SizeAlphabet == {"1", "2", "0", "-", ",", " ", "x"}

InitParse ==
    /\ HandlerIdle
    /\ fn_pc = "idle"
    /\ sizes_str \in Strings(SizeAlphabet, MaxLen)
    /\ parsed = <<>>
    /\ src_key = <<>> /\ width = 0 /\ dest_key = <<>>
    /\ dims = <<0, 0, 0>> /\ height = 0

CallParseSizes ==
    /\ fn_pc = "idle"
    /\ parsed' = parse_sizes(sizes_str)
    /\ fn_pc' = "returned"
    /\ UNCHANGED <<handlerVars, sizes_str, src_key, width, dest_key, dims, height>>

NextParse == CallParseSizes

SpecParse == InitParse /\ [][NextParse]_vars

----------------------------------------------------------------------------
(* derive_output_key called on its own *)

KeyAlphabet == {"a", "b", "/", "."}
UploadsCatJpg == <<"u", "p", "l", "o", "a", "d", "s", "/", "c", "a", "t", ".", "j", "p", "g">>
CatTarGz == <<"c", "a", "t", ".", "t", "a", "r", ".", "g", "z">>
KeyWidths == {1, 10, 128}

InitKey ==
    /\ HandlerIdle
    /\ fn_pc = "idle"
    /\ src_key \in Strings(KeyAlphabet, MaxKeyLen) \cup {UploadsCatJpg, CatTarGz}
    /\ width \in KeyWidths
    /\ dest_key = <<>>
    /\ sizes_str = <<>> /\ parsed = <<>>
    /\ dims = <<0, 0, 0>> /\ height = 0

CallDeriveOutputKey ==
    /\ fn_pc = "idle"
    /\ dest_key' = derive_output_key(src_key, width)
    /\ fn_pc' = "returned"
    /\ UNCHANGED <<handlerVars, sizes_str, parsed, src_key, width, dims, height>>

NextKey == CallDeriveOutputKey

SpecKey == InitKey /\ [][NextKey]_vars

----------------------------------------------------------------------------
(* The body of the for loop of process_image up to the height, lines 121-125, *)
(* for an image of dims[1] x dims[2] and a target width dims[3]               *)

InitHeight ==
    /\ HandlerIdle
    /\ fn_pc = "idle"
    /\ dims \in (1..MaxDim) \X (1..MaxDim) \X (1..MaxDim)
    /\ height = 0
    /\ sizes_str = <<>> /\ parsed = <<>>
    /\ src_key = <<>> /\ width = 0 /\ dest_key = <<>>

SkipUpscaleAlone ==
    /\ fn_pc = "idle"
    /\ dims[1] <= dims[3]
    /\ fn_pc' = "skipped"
    /\ UNCHANGED <<handlerVars, sizes_str, parsed, src_key, width, dest_key, dims, height>>

ComputeHeight ==
    /\ fn_pc = "idle"
    /\ ~(dims[1] <= dims[3])
    /\ height' = ScaledHeight(dims[1], dims[2], dims[3])
    /\ fn_pc' = "returned"
    /\ UNCHANGED <<handlerVars, sizes_str, parsed, src_key, width, dest_key, dims>>

NextHeight == SkipUpscaleAlone \/ ComputeHeight

SpecHeight == InitHeight /\ [][NextHeight]_vars

----------------------------------------------------------------------------
(* Properties *)

ProcessingOps == {"get_object", "Image.open", "save", "put_object"}

\* the call at position p of the log is a step of process_image that raised
Failed(p) == calls[p].op \in ProcessingOps /\ ~calls[p].ok

\* the exception a failed step of process_image raises
RaisedBy(c) ==
    Exception(CASE c.op = "get_object" -> "ClientError:get_object"
                [] c.op = "Image.open" -> "UnidentifiedImageError"
                [] c.op = "save" -> "EncodeError"
                [] c.op = "put_object" -> "ClientError:put_object",
              c.idx)

Positions(op, i) == {p \in DOMAIN calls : calls[p].op = op /\ calls[p].idx = i}

\* the widths put successfully for record i, in the order of the calls
RECURSIVE PutWidthsFrom(_, _)
PutWidthsFrom(i, p) ==
    IF p > Len(calls) THEN <<>>
    ELSE IF calls[p].op = "put_object" /\ calls[p].idx = i /\ calls[p].ok
         THEN <<calls[p].width>> \o PutWidthsFrom(i, p + 1)
         ELSE PutWidthsFrom(i, p + 1)

Below(W, ws) == LET Smaller(w) == w < W IN SelectSeq(ws, Smaller)

StrictlyAscending(s) == \A i, j \in DOMAIN s : i < j => s[i] < s[j]

\* C1: a successful process_image call uploads a derivative for exactly the
\* parsed widths below the image width, never for a width at or above it, and
\* returns exactly those widths in ascending order (the empty list when there
\* is none).
C1_UploadsExactlySmallerWidths ==
    /\ \A p \in DOMAIN calls :
          calls[p].op = "put_object" /\ calls[p].idx = idx => calls[p].width < img.width
    /\ pc = "metrics" =>
          /\ result.sizes = Below(img.width, parse_sizes(THUMB_SIZES))
          /\ PutWidthsFrom(idx, 1) = result.sizes
          /\ StrictlyAscending(result.sizes)
          /\ \A p \in Positions("put_object", idx) : calls[p].ok

C1_Witness ==
    /\ pc = "metrics"
    /\ img.width = 300
    /\ parse_sizes(THUMB_SIZES) = <<128, 512>>
    /\ result.sizes = <<128>>
    /\ PutWidthsFrom(idx, 1) = <<128>>

\* C2: whenever a step of process_image raised, lambda_handler ends by raising
\* that same exception and never returns statusCode 200, whether or not a
\* dead-letter message was attempted and whether or not its publish failed.
C2_ReraisesOriginal ==
    \A p \in DOMAIN calls :
        Failed(p) =>
            /\ outcome.kind # "return"
            /\ pc = "done" => outcome = [kind |-> "raise", exc |-> RaisedBy(calls[p])]

C2_Witness ==
    /\ pc = "done"
    /\ outcome.kind = "raise"
    /\ \E p \in DOMAIN calls : Failed(p)
    /\ calls[Len(calls)].op = "send_message" /\ ~calls[Len(calls)].ok

SendPositions == {p \in DOMAIN calls : calls[p].op = "send_message"}

\* C3: an invocation attempts exactly one dead-letter publish when a
\* destination is configured and a record's processing raised, none otherwise,
\* and the message carries the bucket, key and error text of the failed record.
C3_OneDeadLetterPerFailure ==
    /\ Cardinality(SendPositions) <= 1
    /\ \A p \in SendPositions :
          /\ ~Falsy(DLQ_URL)
          /\ \E q \in 1..(p - 1) :
                /\ Failed(q)
                /\ calls[q].idx = calls[p].idx
                /\ calls[p].error = ExcStr(RaisedBy(calls[q]))
          /\ calls[p].bucket = records[calls[p].idx].s3.bucket.name.val
          /\ calls[p].key = records[calls[p].idx].s3.object.key.val
    /\ pc = "done" =>
          (Cardinality(SendPositions) = 1
             <=> (~Falsy(DLQ_URL) /\ \E q \in DOMAIN calls : Failed(q)))

C3_Witness ==
    /\ pc = "done"
    /\ Len(records) = 2
    /\ \E q \in Positions("put_object", 1) : calls[q].ok
    /\ \E p \in SendPositions :
          /\ calls[p].idx = 2
          /\ calls[p].key # records[1].s3.object.key.val

\* C4: records are processed in batch order and the dispatcher stops at the
\* first record whose processing raises: nothing is fetched, uploaded, measured
\* or dead-lettered for a later record, and what earlier records uploaded and
\* measured stays in place.
C4_StopsAtFirstFailure ==
    /\ \A p, q \in DOMAIN calls : p < q => calls[p].idx <= calls[q].idx
    /\ \A p \in DOMAIN calls :
          Failed(p) =>
              /\ idx = calls[p].idx
              /\ \A q \in DOMAIN calls :
                    q > p => calls[q].op = "send_message" /\ calls[q].idx = calls[p].idx
    /\ \A p \in DOMAIN calls :
          calls[p].op = "put_object" /\ calls[p].ok => calls[p].key \in out_bucket
    /\ \A i \in 1..(idx - 1) :
          Positions("get_object", i) # {} =>
              Cardinality(Positions("put_metric", i)) = Len(MetricNames)

C4_Witness ==
    /\ pc = "done"
    /\ Len(records) = 2
    /\ records[2] \in {GoodRecord(k) : k \in SourceKeys}
    /\ \E p \in DOMAIN calls : Failed(p) /\ calls[p].idx = 1
    /\ \A p \in DOMAIN calls : calls[p].idx = 1

\* the value at the end of a path of keys, None where a step is missing
RECURSIVE Lookup(_, _)
Lookup(v, path) ==
    IF path = <<>> THEN v
    ELSE IF v.kind = "dict" /\ Head(path) \in DOMAIN v THEN Lookup(v[Head(path)], Tail(path))
    ELSE None

\* the record names no bucket or no object key
LacksBucketOrKey(r) ==
    \/ Falsy(Lookup(r, <<"s3", "bucket", "name">>))
    \/ Falsy(Lookup(r, <<"s3", "object", "key">>))

\* C5: a record whose bucket name or object key is absent or empty is skipped
\* without failing the batch: no call is made for it, no exception is raised
\* because of it, and a batch of only such records returns statusCode 200.
C5_MalformedRecordSkipped ==
    /\ \A i \in 1..Len(records) :
          LacksBucketOrKey(records[i]) =>
              /\ \A p \in DOMAIN calls : calls[p].idx # i
              /\ ~(outcome.kind = "raise" /\ outcome.exc.idx = i)
    /\ (pc = "done" /\ \A i \in 1..Len(records) : LacksBucketOrKey(records[i]))
          => outcome = [kind |-> "return", statusCode |-> 200]

\* C6: derive_output_key returns the key up to the first '.' of its final path
\* segment (the directory prefix with its slash, then the base name), then
\* '_<width>w.webp' with the width in decimal.
ExpectedStem(k) ==
    LET slashes == {i \in 1..Len(k) : k[i] = "/"}
        lastSlash == IF slashes = {} THEN 0 ELSE CHOOSE i \in slashes : \A j \in slashes : j <= i
        dots == {i \in (lastSlash + 1)..Len(k) : k[i] = "."}
        firstDot == IF dots = {} THEN Len(k) + 1 ELSE CHOOSE i \in dots : \A j \in dots : i <= j
    IN  SubSeq(k, 1, firstDot - 1)

C6_DerivedKeyShape ==
    fn_pc = "returned" =>
        LET stem == ExpectedStem(src_key)
            n == Len(dest_key)
            digits == SubSeq(dest_key, Len(stem) + 2, n - 6)
        IN  /\ n >= Len(stem) + 8
            /\ SubSeq(dest_key, 1, Len(stem)) = stem
            /\ dest_key[Len(stem) + 1] = "_"
            /\ \A i \in DOMAIN digits : IsDigit(digits[i])
            /\ digits[1] # "0"
            /\ DigitsValue(digits, 0) = width
            /\ SubSeq(dest_key, n - 5, n) = <<"w", ".", "w", "e", "b", "p">>
            /\ (src_key = UploadsCatJpg /\ width = 128) =>
                  dest_key = <<"u", "p", "l", "o", "a", "d", "s", "/", "c", "a", "t",
                               "_", "1", "2", "8", "w", ".", "w", "e", "b", "p">>
            /\ (src_key = CatTarGz /\ width = 10) =>
                  dest_key = <<"c", "a", "t", "_", "1", "0", "w", ".", "w", "e", "b", "p">>

C6_Witness ==
    /\ fn_pc = "returned"
    /\ src_key = CatTarGz /\ width = 10
    /\ dest_key = <<"c", "a", "t", "_", "1", "0", "w", ".", "w", "e", "b", "p">>

\* the values of the comma-separated tokens that are integers above 0
TokenValues(s) ==
    LET tokens == Split(s, ",")
    IN  {IntOf(tokens[i]) : i \in {j \in DOMAIN tokens : IntOk(tokens[j]) /\ IntOf(tokens[j]) > 0}}

RECURSIVE Join(_)
Join(tokens) ==
    IF Len(tokens) = 1 THEN tokens[1]
    ELSE tokens[1] \o <<",">> \o Join(Tail(tokens))

\* C7: parse_sizes returns a strictly ascending sequence of positive integers
\* whose elements are exactly the values of the tokens that are integers above
\* 0 (empty when there is none); reordering or repeating tokens changes nothing.
C7_ParseSizesNormalises ==
    fn_pc = "returned" =>
        LET tokens == Split(sizes_str, ",")
        IN  /\ StrictlyAscending(parsed)
            /\ \A i \in DOMAIN parsed : parsed[i] > 0
            /\ Range(parsed) = TokenValues(sizes_str)
            /\ TokenValues(sizes_str) = {} => parsed = <<>>
            /\ \A f \in Permutations(DOMAIN tokens) :
                  parse_sizes(Join([i \in DOMAIN tokens |-> tokens[f[i]]])) = parsed
            /\ \A i \in DOMAIN tokens :
                  parse_sizes(sizes_str \o <<",">> \o tokens[i]) = parsed

C7_Witness ==
    /\ fn_pc = "returned"
    /\ sizes_str = <<"2", ",", "1">>
    /\ parsed = <<1, 2>>

\* C8: one process_image call fetches the source at most once and uploads each
\* width at most once, in ascending order, with no retry; a failed upload
\* raises to the caller, is followed by no further upload, and leaves the
\* derivatives already uploaded in the destination.
C8_NoRetryNoRollback ==
    \A i \in 1..Len(records) :
        /\ Cardinality(Positions("get_object", i)) <= 1
        /\ \A p, q \in Positions("put_object", i) : p < q => calls[p].width < calls[q].width
        /\ \A p \in Positions("put_object", i) :
              ~calls[p].ok =>
                  /\ \A q \in DOMAIN calls : q > p => calls[q].op = "send_message"
                  /\ pc \in {"except", "done"}
                  /\ pc = "except" => exc = Exception("ClientError:put_object", i)
                  /\ pc = "done" => outcome = [kind |-> "raise",
                                               exc |-> Exception("ClientError:put_object", i)]
        /\ \A p \in Positions("put_object", i) : calls[p].ok => calls[p].key \in out_bucket

C8_Witness ==
    /\ pc = "done"
    /\ \E p, q \in Positions("put_object", 1) :
          /\ p < q
          /\ calls[p].ok /\ calls[p].width = 128 /\ calls[p].key \in out_bucket
          /\ ~calls[q].ok /\ calls[q].width = 512

\* C9: every derivative is encoded at an integer quality in 1..100; a
\* configured quality that is not an integer or lies outside 1..100 is
\* replaced by 85.
C9_QualityInRange ==
    \A p \in DOMAIN calls :
        (calls[p].op = "save" /\ calls[p].ok) =>
            /\ calls[p].quality \in 1..100
            /\ (~IntOk(WEBP_QUALITY) \/ IntOf(WEBP_QUALITY) \notin 1..100)
                  => calls[p].quality = 85

\* C10: for an image of W x H and a target width w below W, the height the
\* derivative is resized to is floor(H * w / W), the exact quotient.
C10_HeightIsExactFloor ==
    fn_pc = "returned" => height = (dims[2] * dims[3]) \div dims[1]

====
